---- MODULE Spec2Model ----
(***************************************************************************)
(* The tenant bucket store of src/tenant/storage_bucket.go: a primary      *)
(* table (bucketsv1: encoded ID -> marshalled bucket) and a secondary      *)
(* index (bucketindexv1: encoded OrgID ++ name -> encoded ID), driven by   *)
(* CreateBucket, UpdateBucket, DeleteBucket, GetBucket, GetBucketByName    *)
(* and ListBuckets inside one caller-supplied transaction; and the         *)
(* authorizing decorator of src/authorizer/auth.go.                        *)
(***************************************************************************)
EXTENDS Integers, Sequences, FiniteSets, TLC

\* ------------------------------------------------------------------ bounds
\* Identifiers a caller supplies or the generator hands out: 1..MaxID.
MaxID == 2
\* Organization identifiers: 1..MaxOrg.
MaxOrg == 2
\* Timestamps stored in one behaviour: the clock shows 1..MaxTime.
MaxTime == 2
\* Buckets a store holds when a listing behaviour starts: none or MaxSeed.
MaxSeed == 3
\* Permissions an authorization asks for: at most MaxPerms.
MaxPerms == 2

\* ------------------------------------------------- identifiers and names
\* influxdb.IDLength: the width of an encoded identifier.
IDLength == 16

\* The base of the text of an identifier: hexadecimal.
HexBase == 16

\* The zero identifier: ID.Valid() is false for it.
InvalidID == 0

Valid(id) == id # InvalidID

\* The ASCII codes of the hexadecimal digits "0123456789abcdef".
HexDigits == <<48, 49, 50, 51, 52, 53, 54, 55, 56, 57, 97, 98, 99, 100, 101, 102>>

RECURSIVE EncodeW(_, _)
\* The w lowest hexadecimal digits of id, most significant first.
EncodeW(id, w) ==
    IF w = 0 THEN << >>
    ELSE Append(EncodeW(id \div HexBase, w - 1), HexDigits[(id % HexBase) + 1])

\* ID.Encode: the fixed-width text of a valid identifier.
Encode(id) == EncodeW(id, IDLength)

\* The digit a character spells: '0'..'9' are 48..57 and 'a'..'f' are 97..102.
IsHex(c) == (c >= 48 /\ c <= 57) \/ (c >= 97 /\ c <= 102)

HexValue(c) == IF c <= 57 THEN c - 48 ELSE c - 87

RECURSIVE DecodeW(_, _)
\* The number the first n characters of b spell.
DecodeW(b, n) ==
    IF n = 0 THEN 0 ELSE DecodeW(b, n - 1) * HexBase + HexValue(b[n])

\* ID.Decode as it computes: rejects text of the wrong width, text that is not
\* hexadecimal and the zero identifier.
DecodeText(b) ==
    IF Len(b) # IDLength \/ (\E i \in 1..Len(b) : ~IsHex(b[i]))
    THEN [err |-> "ErrInvalidID", id |-> InvalidID]
    ELSE IF DecodeW(b, IDLength) = InvalidID
         THEN [err |-> "ErrInvalidID", id |-> InvalidID]
         ELSE [err |-> "nil", id |-> DecodeW(b, IDLength)]

\* The two reserved system buckets.
TasksSystemBucketID == 10
MonitoringSystemBucketID == 11
\* "_tasks" and "_monitoring" as byte strings.
TasksSystemBucketName == <<95, 116, 97, 115, 107, 115>>
MonitoringSystemBucketName == <<95, 109, 111, 110, 105, 116, 111, 114, 105, 110, 103>>
\* Retention periods in hours (3 days, 7 days).
TasksSystemBucketRetention == 72
MonitoringSystemBucketRetention == 168

BucketTypeUser == "user"
BucketTypeSystem == "system"

\* ------------------------------------------------------------ input sets
IDs == 1..MaxID
Orgs == 1..MaxOrg
\* "", "a" and the two reserved names.
Names == {<< >>, <<97>>, TasksSystemBucketName, MonitoringSystemBucketName}
Types == {BucketTypeUser, BucketTypeSystem}
Descriptions == {"d1"}
Retentions == {0}
PatchDescriptions == {"d2"}
PatchRetentions == {1}

\* The encoded form of every identifier the model handles, computed once.
AllIDs ==
    IDs \cup Orgs \cup {TasksSystemBucketID, MonitoringSystemBucketID}
        \cup ((MaxID + 1)..(MaxID + MaxSeed))
Enc == [i \in AllIDs |-> Encode(i)]
\* What DecodeText makes of each of those texts, computed once.
Dec == [b \in {Enc[i] : i \in AllIDs} |-> DecodeText(b)]

\* ID.Decode.
Decode(b) == IF b \in DOMAIN Dec THEN Dec[b] ELSE DecodeText(b)

Nil == "nil"

\* The zero time of a record that was never stamped.
ZeroTime == 0

\* The caller's view of "no bucket returned".
NoBucket ==
    [ID |-> InvalidID, OrgID |-> InvalidID, Type |-> BucketTypeUser, Name |-> << >>,
     Description |-> "", RetentionPeriod |-> 0,
     CreatedAt |-> ZeroTime, UpdatedAt |-> ZeroTime]

VARIABLES
    primary,   \* bucketsv1: encoded ID -> marshalled bucket
    index,     \* bucketindexv1: encoded OrgID ++ name -> encoded ID
    now,       \* what time.Now() reads; it advances past every stored timestamp
    call,      \* the last call made (or the calls under way), with its arguments
    pre,       \* the two tables as that call found them
    ret        \* what that call returned: its error and its results

vars == <<primary, index, now, call, pre, ret>>

\* ------------------------------------------------------------ kv engine
Put(tbl, k, v) == [x \in (DOMAIN tbl) \cup {k} |-> IF x = k THEN v ELSE tbl[x]]

Delete(tbl, k) == [x \in (DOMAIN tbl) \ {k} |-> tbl[x]]

EmptyTable == [x \in {} |-> << >>]

\* ------------------------------------------------------ keys and codec
bucketIndexKey(o, name) ==
    IF ~Valid(o) THEN [err |-> "EInvalid", key |-> << >>]
    ELSE [err |-> Nil, key |-> Enc[o] \o name]

marshalBucket(u) ==
    [id |-> Enc[u.ID], orgID |-> Enc[u.OrgID], type |-> u.Type, name |-> u.Name,
     description |-> u.Description, retentionPeriod |-> u.RetentionPeriod,
     createdAt |-> u.CreatedAt, updatedAt |-> u.UpdatedAt]

unmarshalBucket(v) ==
    [ID |-> Decode(v.id).id, OrgID |-> Decode(v.orgID).id, Type |-> v.type,
     Name |-> v.name, Description |-> v.description,
     RetentionPeriod |-> v.retentionPeriod,
     CreatedAt |-> v.createdAt, UpdatedAt |-> v.updatedAt]

\* -------------------------------------------------------------- reads
\* uniqueBucketName without its probe of the index.
uniqueBucketName_AlwaysUnique(oid, uname) ==
    LET k == bucketIndexKey(oid, uname) IN
    IF k.err # Nil THEN k.err ELSE Nil

uniqueBucketName(oid, uname) ==
    LET k == bucketIndexKey(oid, uname) IN
    IF k.err # Nil THEN k.err
    ELSE IF Len(k.key) = 0 THEN "ErrNameisEmpty"
    ELSE IF k.key \notin DOMAIN index THEN Nil
    ELSE "BucketAlreadyExistsError"

GetBucket(id) ==
    IF ~Valid(id) THEN [err |-> "InvalidOrgIDError", bucket |-> NoBucket]
    ELSE IF Enc[id] \notin DOMAIN primary
         THEN [err |-> "ErrBucketNotFound", bucket |-> NoBucket]
         ELSE [err |-> Nil, bucket |-> unmarshalBucket(primary[Enc[id]])]

\* SystemBucket answering every reserved name with the tasks bucket.
SystemBucket_AlwaysTasks(orgID, n) ==
    [ID |-> TasksSystemBucketID, OrgID |-> orgID, Type |-> BucketTypeSystem,
     Name |-> TasksSystemBucketName, Description |-> "System bucket for task logs",
     RetentionPeriod |-> TasksSystemBucketRetention,
     CreatedAt |-> ZeroTime, UpdatedAt |-> ZeroTime]

\* The record GetBucketByName synthesizes for a reserved name n.
SystemBucket(orgID, n) ==
    IF n = TasksSystemBucketName
    THEN [ID |-> TasksSystemBucketID, OrgID |-> orgID, Type |-> BucketTypeSystem,
          Name |-> TasksSystemBucketName, Description |-> "System bucket for task logs",
          RetentionPeriod |-> TasksSystemBucketRetention,
          CreatedAt |-> ZeroTime, UpdatedAt |-> ZeroTime]
    ELSE [ID |-> MonitoringSystemBucketID, OrgID |-> orgID, Type |-> BucketTypeSystem,
          Name |-> MonitoringSystemBucketName,
          Description |-> "System bucket for monitoring logs",
          RetentionPeriod |-> MonitoringSystemBucketRetention,
          CreatedAt |-> ZeroTime, UpdatedAt |-> ZeroTime]

GetBucketByName(orgID, n) ==
    LET k == bucketIndexKey(orgID, n) IN
    IF k.err # Nil THEN [err |-> "EInvalid", bucket |-> NoBucket]
    ELSE IF k.key \notin DOMAIN index
         THEN IF n \in {TasksSystemBucketName, MonitoringSystemBucketName}
              THEN [err |-> Nil, bucket |-> SystemBucket(orgID, n)]
              ELSE [err |-> "ErrBucketNotFoundByName", bucket |-> NoBucket]
         ELSE LET d == Decode(index[k.key]) IN
              IF d.err # Nil THEN [err |-> d.err, bucket |-> NoBucket]
              ELSE GetBucket(d.id)

\* ------------------------------------------------------------- actions
Init ==
    /\ primary = EmptyTable
    /\ index = EmptyTable
    /\ now = 1
    /\ call = [op |-> "NewStore"]
    /\ pre = [primary |-> EmptyTable, index |-> EmptyTable]
    /\ ret = [err |-> Nil, bucket |-> NoBucket]

\* generateSafeID: an identifier no primary record is stored under.
generateSafeID == {i \in IDs : Enc[i] \notin DOMAIN primary}

\* createIndexPut without the write.
createIndexPut_Skipped(bucket) == index

\* The index and primary writes of a create that passed its checks.
createIndexPut(bucket) ==
    Put(index, bucketIndexKey(bucket.OrgID, bucket.Name).key, Enc[bucket.ID])

createPrimaryPut(bucket) ==
    Put(primary, Enc[bucket.ID], marshalBucket(bucket))

CreateBucket(bucket) ==
    /\ call' = [op |-> "CreateBucket", bucket |-> bucket]
    /\ pre' = [primary |-> primary, index |-> index]
    /\ \E id \in (IF Valid(bucket.ID) THEN {bucket.ID} ELSE generateSafeID) :
         LET b1 == [bucket EXCEPT !.ID = id]
             uerr == uniqueBucketName(b1.OrgID, b1.Name)
         IN IF uerr # Nil
            THEN /\ ret' = [err |-> uerr, bucket |-> NoBucket]
                 /\ UNCHANGED <<primary, index, now>>
            ELSE LET b2 == [b1 EXCEPT !.CreatedAt = now, !.UpdatedAt = now] IN
                 /\ now <= MaxTime
                 /\ now' = now + 1
                 /\ index' = createIndexPut(b2)
                 /\ primary' = createPrimaryPut(b2)
                 /\ ret' = [err |-> Nil, bucket |-> b2]

\* renameCheck without the test of the bucket's type.
renameCheck_NoSystemCheck(bucket, n) ==
    IF uniqueBucketName(bucket.OrgID, n) # Nil THEN "ErrBucketNameNotUnique"
    ELSE Nil

\* renameCheck handing on the error of uniqueBucketName as it is.
renameCheck_Unwrapped(bucket, n) ==
    IF bucket.Type = BucketTypeSystem THEN "errRenameSystemBucket"
    ELSE uniqueBucketName(bucket.OrgID, n)

\* The error a rename of bucket to name n is rejected with, Nil if none.
renameCheck(bucket, n) ==
    IF bucket.Type = BucketTypeSystem THEN "errRenameSystemBucket"
    ELSE IF uniqueBucketName(bucket.OrgID, n) # Nil THEN "ErrBucketNameNotUnique"
    ELSE Nil

\* renameIndex without the delete of the old entry.
renameIndex_KeepOld(bucket, n) ==
    Put(index, bucketIndexKey(bucket.OrgID, n).key, Enc[bucket.ID])

\* The index after the entry of bucket moved to name n.
renameIndex(bucket, n) ==
    Put(Delete(index, bucketIndexKey(bucket.OrgID, bucket.Name).key),
        bucketIndexKey(bucket.OrgID, n).key, Enc[bucket.ID])

\* applyPatch clearing the description the patch leaves out.
applyPatch_ClearsUnset(bucket, upd) ==
    [bucket EXCEPT
       !.Name = IF upd.Name = {} THEN @ ELSE CHOOSE n \in upd.Name : TRUE,
       !.Description =
           IF upd.Description = {} THEN "" ELSE CHOOSE d \in upd.Description : TRUE,
       !.RetentionPeriod =
           IF upd.RetentionPeriod = {} THEN @
           ELSE CHOOSE r \in upd.RetentionPeriod : TRUE]

\* The fields a patch sets on a loaded bucket; an absent field is the empty set.
applyPatch(bucket, upd) ==
    [bucket EXCEPT
       !.Name = IF upd.Name = {} THEN @ ELSE CHOOSE n \in upd.Name : TRUE,
       !.Description =
           IF upd.Description = {} THEN @ ELSE CHOOSE d \in upd.Description : TRUE,
       !.RetentionPeriod =
           IF upd.RetentionPeriod = {} THEN @
           ELSE CHOOSE r \in upd.RetentionPeriod : TRUE]

UpdateBucket(id, upd) ==
    /\ call' = [op |-> "UpdateBucket", id |-> id, upd |-> upd]
    /\ pre' = [primary |-> primary, index |-> index]
    /\ IF ~Valid(id)
       THEN /\ ret' = [err |-> "ErrInvalidID", bucket |-> NoBucket]
            /\ UNCHANGED <<primary, index, now>>
       ELSE LET g == GetBucket(id) IN
            IF g.err # Nil
            THEN /\ ret' = [err |-> g.err, bucket |-> NoBucket]
                 /\ UNCHANGED <<primary, index, now>>
            ELSE LET bucket == [g.bucket EXCEPT !.UpdatedAt = now]
                     rename == upd.Name # {} /\ upd.Name # {bucket.Name}
                     n2 == CHOOSE n \in upd.Name : TRUE
                     rerr == IF rename THEN renameCheck(bucket, n2) ELSE Nil
                 IN IF rerr # Nil
                    THEN /\ ret' = [err |-> rerr, bucket |-> NoBucket]
                         /\ UNCHANGED <<primary, index, now>>
                    ELSE LET b3 == applyPatch(bucket, upd) IN
                            /\ now <= MaxTime
                            /\ now' = now + 1
                            /\ index' = IF rename THEN renameIndex(bucket, n2) ELSE index
                            /\ primary' = Put(primary, Enc[id], marshalBucket(b3))
                            /\ ret' = [err |-> Nil, bucket |-> b3]

\* deleteIndex without the delete.
deleteIndex_Skipped(bucket) == index

\* The index after the entry of a deleted bucket is removed.
deleteIndex(bucket) ==
    Delete(index, bucketIndexKey(bucket.OrgID, bucket.Name).key)

DeleteBucket(id) ==
    /\ call' = [op |-> "DeleteBucket", id |-> id]
    /\ pre' = [primary |-> primary, index |-> index]
    /\ LET g == GetBucket(id) IN
       IF g.err # Nil
       THEN /\ ret' = [err |-> g.err, bucket |-> NoBucket]
            /\ UNCHANGED <<primary, index, now>>
       ELSE /\ index' = deleteIndex(g.bucket)
            /\ primary' = Delete(primary, Enc[id])
            /\ ret' = [err |-> Nil, bucket |-> NoBucket]
            /\ UNCHANGED now

CallGetBucket(id) ==
    /\ call' = [op |-> "GetBucket", id |-> id]
    /\ pre' = [primary |-> primary, index |-> index]
    /\ ret' = GetBucket(id)
    /\ UNCHANGED <<primary, index, now>>

CallGetBucketByName(orgID, n) ==
    /\ call' = [op |-> "GetBucketByName", orgID |-> orgID, name |-> n]
    /\ pre' = [primary |-> primary, index |-> index]
    /\ ret' = GetBucketByName(orgID, n)
    /\ UNCHANGED <<primary, index, now>>

\* The buckets a caller passes to CreateBucket, and the patches to UpdateBucket.
BucketInputs ==
    [ID : {InvalidID} \cup IDs, OrgID : {InvalidID} \cup Orgs, Type : Types,
     Name : Names, Description : Descriptions, RetentionPeriod : Retentions,
     CreatedAt : {ZeroTime}, UpdatedAt : {ZeroTime}]

PatchInputs ==
    [Name : {{}} \cup {{n} : n \in Names},
     Description : {{}} \cup {{d} : d \in PatchDescriptions},
     RetentionPeriod : {{}} \cup {{r} : r \in PatchRetentions}]

Next ==
    \/ \E bucket \in BucketInputs : CreateBucket(bucket)
    \/ \E id \in {InvalidID} \cup IDs, upd \in PatchInputs : UpdateBucket(id, upd)
    \/ \E id \in {InvalidID} \cup IDs : DeleteBucket(id)
    \/ \E id \in {InvalidID} \cup IDs : CallGetBucket(id)
    \/ \E orgID \in {InvalidID} \cup Orgs, n \in Names : CallGetBucketByName(orgID, n)

Spec == Init /\ [][Next]_vars

\* ------------------------------------------------------------- listing
\* influxdb.DefaultPageSize and influxdb.MaxPageSize, scaled to the tables the
\* model can hold: the default is below the maximum, and a store can hold more
\* buckets than the maximum.
DefaultPageSize == 1
MaxPageSize == 2

bucketBucket == "bucketsv1"
bucketIndex == "bucketindexv1"

\* bytes.Compare(a, b) < 0: the order a kv table keeps its keys in.
bytesLess(a, b) ==
    LET n == IF Len(a) < Len(b) THEN Len(a) ELSE Len(b)
        diff == {i \in 1..n : a[i] # b[i]}
    IN IF diff = {} THEN Len(a) < Len(b)
       ELSE LET i == CHOOSE x \in diff : \A y \in diff : x <= y IN a[i] < b[i]

hasPrefix(k, p) == Len(k) >= Len(p) /\ SubSeq(k, 1, Len(p)) = p

RECURSIVE sortKeys(_)
\* The keys of S in ascending byte order.
sortKeys(S) ==
    IF S = {} THEN << >>
    ELSE LET m == CHOOSE k \in S : \A x \in S \ {k} : bytesLess(k, x)
         IN <<m>> \o sortKeys(S \ {m})

Reverse(s) == [i \in 1..Len(s) |-> s[Len(s) + 1 - i]]

\* Bucket.ForwardCursor(seek, WithCursorPrefix(prefix), WithCursorDirection(..)):
\* the keys cursor.Next() yields, in order. ListBuckets seeks nil without a
\* prefix, listBucketsByOrg seeks the prefix itself, so the seek excludes nothing.
ForwardCursor(tbl, prefix, descending) ==
    LET ks == sortKeys({k \in DOMAIN tbl : hasPrefix(k, prefix)})
    IN IF descending THEN Reverse(ks) ELSE ks

\* defer cursor.Close() dropped: the cursor is closed where the loop is left.
deferClose_AfterLoop(exit) == IF exit \in {"end", "limit"} THEN 1 ELSE 0

\* defer cursor.Close(): how often the cursor is closed when the call leaves by
\* exit path exit after it opened the cursor.
deferClose(exit) == 1

\* What a listing returns: its error and buckets, the path it left by, the
\* tables it obtained from the transaction, and the cursors opened and closed.
ListResult(err, bs, exit, tables) ==
    [err |-> err, bucket |-> NoBucket, buckets |-> bs, exit |-> exit,
     tables |-> tables,
     opened |-> IF exit \in {"filter", "key"} THEN 0 ELSE 1,
     closed |-> IF exit \in {"filter", "key"} THEN 0 ELSE deferClose(exit)]

\* The scan direction of the index cursor when it follows o.Descending.
orgCursorDescending_Honoured(o) == o.Descending

\* The scan direction listBucketsByOrg opens its cursor with: it passes the
\* prefix option only, so the cursor runs ascending whatever o.Descending says.
orgCursorDescending(o) == FALSE

RECURSIVE orgLoop(_, _, _, _, _)
\* The loop of listBucketsByOrg over the keys its cursor yields.
orgLoop(keys, o, count, bs, tables) ==
    IF keys = << >> THEN ListResult(Nil, bs, "end", tables)
    ELSE IF o.Offset # 0 /\ count < o.Offset
         THEN orgLoop(Tail(keys), o, count + 1, bs, tables)
         ELSE LET d == Decode(index[Head(keys)]) IN
              IF d.err # Nil THEN ListResult(d.err, << >>, "decode", tables)
              ELSE LET g == GetBucket(d.id)
                       bs2 == Append(bs, g.bucket)
                       t2 == tables \cup {bucketBucket}
                   IN IF g.err # Nil THEN ListResult(g.err, << >>, "get", t2)
                      ELSE IF Len(bs2) >= o.Limit
                           THEN ListResult(Nil, bs2, "limit", t2)
                           ELSE orgLoop(Tail(keys), o, count, bs2, t2)

listBucketsByOrg(orgID, o) ==
    LET k == bucketIndexKey(orgID, << >>) IN
    IF k.err # Nil THEN ListResult("EInvalid", << >>, "key", {})
    ELSE orgLoop(ForwardCursor(index, k.key, orgCursorDescending(o)),
                 o, 0, << >>, {bucketIndex})

RECURSIVE primaryLoop(_, _, _, _, _)
\* The loop of ListBuckets over the keys of the primary table.
primaryLoop(keys, filter, o, count, bs) ==
    IF keys = << >> THEN ListResult(Nil, bs, "end", {bucketBucket})
    ELSE IF o.Offset # 0 /\ count < o.Offset
         THEN primaryLoop(Tail(keys), filter, o, count + 1, bs)
         ELSE LET b == unmarshalBucket(primary[Head(keys)])
                  bs2 == IF filter.Name = {} \/ filter.Name = {b.Name}
                         THEN Append(bs, b) ELSE bs
              IN IF Len(bs2) >= o.Limit
                 THEN ListResult(Nil, bs2, "limit", {bucketBucket})
                 ELSE primaryLoop(Tail(keys), filter, o, count, bs2)

\* findOptions keeping the limit the caller passed.
findOptions_Unclamped(opt) ==
    IF Len(opt) = 0
    THEN [Limit |-> DefaultPageSize, Offset |-> 0, Descending |-> FALSE]
    ELSE opt[1]

\* The options ListBuckets works with: the default page size when the caller
\* passed none, and the maximum page size for a limit of 0 or above it.
findOptions(opt) ==
    LET o == IF Len(opt) = 0
             THEN [Limit |-> DefaultPageSize, Offset |-> 0, Descending |-> FALSE]
             ELSE opt[1]
    IN IF o.Limit > MaxPageSize \/ o.Limit = 0
       THEN [o EXCEPT !.Limit = MaxPageSize] ELSE o

\* ListBuckets without its test of the filter.
ListBuckets_NoFilterCheck(filter, opt) ==
    LET o == findOptions(opt) IN
    IF filter.OrganizationID # {}
    THEN listBucketsByOrg(CHOOSE oid \in filter.OrganizationID : TRUE, o)
    ELSE primaryLoop(ForwardCursor(primary, << >>, o.Descending),
                     filter, o, 0, << >>)

\* An absent filter field is the empty set, a set one the singleton of its value.
ListBuckets(filter, opt) ==
    IF /\ filter.OrganizationID # {}
       /\ \A oid \in filter.OrganizationID : Valid(oid)
       /\ filter.Name # {}
    THEN ListResult("invalidBucketListRequest", << >>, "filter", {})
    ELSE LET o == findOptions(opt) IN
         IF filter.OrganizationID # {}
         THEN listBucketsByOrg(CHOOSE oid \in filter.OrganizationID : TRUE, o)
         ELSE primaryLoop(ForwardCursor(primary, << >>, o.Descending),
                          filter, o, 0, << >>)

CallListBuckets(filter, opt) ==
    /\ call' = [op |-> "ListBuckets", filter |-> filter, opt |-> opt]
    /\ pre' = [primary |-> primary, index |-> index]
    /\ ret' = ListBuckets(filter, opt)
    /\ UNCHANGED <<primary, index, now>>

\* The store a listing behaviour starts from: empty, or holding the buckets
\* "a", "b", "c", ... of organization 1, created earlier under generated
\* identifiers.
SeedBucket(i) ==
    [ID |-> MaxID + i, OrgID |-> 1, Type |-> BucketTypeUser, Name |-> <<96 + i>>,
     Description |-> "d1", RetentionPeriod |-> 0,
     CreatedAt |-> ZeroTime, UpdatedAt |-> ZeroTime]

SeedPrimary(k) ==
    [x \in {Enc[MaxID + i] : i \in 1..k} |->
        marshalBucket(SeedBucket(Dec[x].id - MaxID))]

SeedIndex(k) ==
    [x \in {Enc[1] \o <<96 + i>> : i \in 1..k} |-> Enc[MaxID + x[IDLength + 1] - 96]]

InitList ==
    \E k \in {0, MaxSeed} :
        /\ primary = SeedPrimary(k)
        /\ index = SeedIndex(k)
        /\ now = 1
        /\ call = [op |-> "NewStore"]
        /\ pre = [primary |-> SeedPrimary(k), index |-> SeedIndex(k)]
        /\ ret = [err |-> Nil, bucket |-> NoBucket]

\* The calls of a listing behaviour: writes that fill and change the tables,
\* and every listing.
ListBucketInputs ==
    [ID : IDs, OrgID : Orgs, Type : {BucketTypeUser}, Name : {<< >>, <<97>>},
     Description : Descriptions, RetentionPeriod : Retentions,
     CreatedAt : {ZeroTime}, UpdatedAt : {ZeroTime}]

ListPatchInputs ==
    [Name : {{}, {<<97>>}}, Description : {{}}, RetentionPeriod : {{}}]

FilterInputs ==
    [Name : {{}, {<<97>>}},
     OrganizationID : {{}} \cup {{oid} : oid \in {InvalidID} \cup Orgs}]

OptionInputs ==
    {<< >>} \cup
    {<<o>> : o \in [Limit : 0..(MaxPageSize + 1), Offset : 0..1,
                     Descending : BOOLEAN]}

NextList ==
    \/ \E bucket \in ListBucketInputs : CreateBucket(bucket)
    \/ \E id \in IDs, upd \in ListPatchInputs : UpdateBucket(id, upd)
    \/ \E id \in IDs : DeleteBucket(id)
    \/ \E filter \in FilterInputs, opt \in OptionInputs : CallListBuckets(filter, opt)

SpecList == InitList /\ [][NextList]_vars

\* The calls of a behaviour of writes on a store that may hold buckets already:
\* patches of every shape on every stored identifier, between creates and
\* deletes.
StoredIDs == IDs \cup ((MaxID + 1)..(MaxID + MaxSeed))

UpdatePatchInputs ==
    [Name : {{}, {<<97>>}},
     Description : {{}} \cup {{d} : d \in PatchDescriptions},
     RetentionPeriod : {{}} \cup {{r} : r \in PatchRetentions}]

NextUpdate ==
    \/ \E bucket \in ListBucketInputs : CreateBucket(bucket)
    \/ \E id \in StoredIDs, upd \in UpdatePatchInputs : UpdateBucket(id, upd)
    \/ \E id \in IDs : DeleteBucket(id)

SpecUpdate == InitList /\ [][NextUpdate]_vars

\* ------------------------------------------- two creating transactions
\* Two transactions that each run CreateBucket for the same (OrgID, Name) under
\* different caller-supplied IDs. call holds the two buckets and what the
\* engine does with the transactions, ret how far each transaction is and the
\* error it returned. A "serialized" engine runs each create whole; an engine
\* that does "none" of that lets the probe of one create and its writes be
\* apart, with steps of the other in between.
Engines == {"serialized", "none"}

RacingPairs ==
    {<<b1, b2>> \in BucketInputs \X BucketInputs :
        /\ Valid(b1.ID) /\ Valid(b2.ID) /\ b1.ID # b2.ID
        /\ Valid(b1.OrgID) /\ b1.OrgID = b2.OrgID
        /\ b1.Name = b2.Name /\ b1.Type = b2.Type}

InitRace ==
    \E pair \in RacingPairs, engine \in Engines :
        /\ primary = EmptyTable
        /\ index = EmptyTable
        /\ now = 1
        /\ call = [op |-> "CreateBucket x 2", engine |-> engine, bucket |-> pair]
        /\ pre = [primary |-> EmptyTable, index |-> EmptyTable]
        /\ ret = [tx |-> [i \in 1..2 |-> [pc |-> "begin", err |-> Nil]]]

\* Transaction i runs its whole CreateBucket: the probe of uniqueBucketName and,
\* when it passes, the two writes.
TxCreateBucket(i) ==
    /\ call.op = "CreateBucket x 2" /\ call.engine = "serialized"
    /\ ret.tx[i].pc = "begin"
    /\ LET b1 == call.bucket[i]
           uerr == uniqueBucketName(b1.OrgID, b1.Name)
       IN IF uerr # Nil
          THEN /\ ret' = [ret EXCEPT !.tx[i] = [pc |-> "done", err |-> uerr]]
               /\ UNCHANGED <<primary, index, now>>
          ELSE LET b2 == [b1 EXCEPT !.CreatedAt = now, !.UpdatedAt = now] IN
               /\ now <= MaxTime
               /\ now' = now + 1
               /\ index' = createIndexPut(b2)
               /\ primary' = createPrimaryPut(b2)
               /\ ret' = [ret EXCEPT !.tx[i] = [pc |-> "done", err |-> Nil]]
    /\ UNCHANGED <<call, pre>>

\* Transaction i probes the index (lines 293-296) and goes on to its writes
\* later.
TxUniqueBucketName(i) ==
    /\ call.op = "CreateBucket x 2" /\ call.engine = "none"
    /\ ret.tx[i].pc = "begin"
    /\ ret' = [ret EXCEPT !.tx[i] =
                  [pc |-> "probed",
                   err |-> uniqueBucketName(call.bucket[i].OrgID,
                                            call.bucket[i].Name)]]
    /\ UNCHANGED <<primary, index, now, call, pre>>

\* Transaction i returns the error of its probe, or makes its two writes
\* (lines 298-327).
TxPut(i) ==
    /\ call.op = "CreateBucket x 2" /\ call.engine = "none"
    /\ ret.tx[i].pc = "probed"
    /\ IF ret.tx[i].err # Nil
       THEN /\ ret' = [ret EXCEPT !.tx[i].pc = "done"]
            /\ UNCHANGED <<primary, index, now>>
       ELSE LET b2 == [call.bucket[i] EXCEPT !.CreatedAt = now, !.UpdatedAt = now] IN
            /\ now <= MaxTime
            /\ now' = now + 1
            /\ index' = createIndexPut(b2)
            /\ primary' = createPrimaryPut(b2)
            /\ ret' = [ret EXCEPT !.tx[i].pc = "done"]
    /\ UNCHANGED <<call, pre>>

NextRace ==
    \/ \E i \in 1..2 : TxCreateBucket(i)
    \/ \E i \in 1..2 : TxUniqueBucketName(i)
    \/ \E i \in 1..2 : TxPut(i)

SpecRace == InitRace /\ [][NextRace]_vars

\* ----------------------------------------------- authorizing decorator
\* The AuthorizationService of src/authorizer/auth.go, which wraps another
\* service s.s and asks the authorizer on the context before it hands a
\* mutation on. call holds the arguments of the last call and what the context
\* and the wrapped service answer; ret holds the error the decorator returned
\* and the calls it made on the wrapped service, in order.
Permissions == {"read:buckets", "write:buckets"}

PermissionLists ==
    UNION {[1..n -> Permissions] : n \in 0..MaxPerms}

\* AuthorizeCreate: the context may create authorizations in the organizations
\* of granted.
AuthorizeCreate(granted, orgID) ==
    IF orgID \in granted THEN Nil ELSE "EUnauthorized"

\* AuthorizeWrite: the context may write the authorizations of the
\* organizations of granted.
AuthorizeWrite(granted, id, orgID) ==
    IF orgID \in granted THEN Nil ELSE "EUnauthorized"

\* IsAllowed: the context holds the permissions of allowed.
IsAllowed(allowed, p) ==
    IF p \in allowed THEN Nil ELSE "EUnauthorized"

\* s.s.FindAuthorizationByID: stored is the OrgID of the authorization the
\* wrapped service holds under id, InvalidID if it holds none.
FindAuthorizationByID(stored, id) ==
    IF stored = InvalidID THEN [err |-> "ENotFound", a |-> [ID |-> InvalidID, OrgID |-> InvalidID]]
    ELSE [err |-> Nil, a |-> [ID |-> id, OrgID |-> stored]]

\* VerifyPermissions looking at the first permission only.
VerifyPermissions_FirstOnly(allowed, ps) ==
    IF ps # << >> /\ IsAllowed(allowed, ps[1]) # Nil THEN "EForbidden" ELSE Nil

RECURSIVE VerifyPermissions(_, _)
VerifyPermissions(allowed, ps) ==
    IF ps = << >> THEN Nil
    ELSE IF IsAllowed(allowed, Head(ps)) # Nil THEN "EForbidden"
    ELSE VerifyPermissions(allowed, Tail(ps))

\* The write check of UpdateAuthorization and DeleteAuthorization left out.
writeCheck_Skipped(granted, a) == Nil

\* The write check of UpdateAuthorization and DeleteAuthorization on the
\* authorization they found.
writeCheck(granted, a) == AuthorizeWrite(granted, a.ID, a.OrgID)

CreateAuthorization(granted, allowed, a, result) ==
    IF AuthorizeCreate(granted, a.OrgID) # Nil
    THEN [err |-> AuthorizeCreate(granted, a.OrgID), forwarded |-> << >>]
    ELSE IF VerifyPermissions(allowed, a.Permissions) # Nil
         THEN [err |-> VerifyPermissions(allowed, a.Permissions), forwarded |-> << >>]
         ELSE [err |-> result, forwarded |-> <<"CreateAuthorization">>]

UpdateAuthorization(granted, stored, id, result) ==
    LET f == FindAuthorizationByID(stored, id) IN
    IF f.err # Nil
    THEN [err |-> f.err, forwarded |-> <<"FindAuthorizationByID">>]
    ELSE IF writeCheck(granted, f.a) # Nil
         THEN [err |-> writeCheck(granted, f.a),
               forwarded |-> <<"FindAuthorizationByID">>]
         ELSE [err |-> result,
               forwarded |-> <<"FindAuthorizationByID", "UpdateAuthorization">>]

DeleteAuthorization(granted, stored, id, result) ==
    LET f == FindAuthorizationByID(stored, id) IN
    IF f.err # Nil
    THEN [err |-> f.err, forwarded |-> <<"FindAuthorizationByID">>]
    ELSE IF writeCheck(granted, f.a) # Nil
         THEN [err |-> writeCheck(granted, f.a),
               forwarded |-> <<"FindAuthorizationByID">>]
         ELSE [err |-> result,
               forwarded |-> <<"FindAuthorizationByID", "DeleteAuthorization">>]

CallCreateAuthorization(granted, allowed, a, result) ==
    /\ call' = [op |-> "CreateAuthorization", granted |-> granted,
                allowed |-> allowed, a |-> a, result |-> result]
    /\ ret' = CreateAuthorization(granted, allowed, a, result)
    /\ UNCHANGED <<primary, index, now, pre>>

CallUpdateAuthorization(granted, stored, id, result) ==
    /\ call' = [op |-> "UpdateAuthorization", granted |-> granted,
                stored |-> stored, id |-> id, result |-> result]
    /\ ret' = UpdateAuthorization(granted, stored, id, result)
    /\ UNCHANGED <<primary, index, now, pre>>

CallDeleteAuthorization(granted, stored, id, result) ==
    /\ call' = [op |-> "DeleteAuthorization", granted |-> granted,
                stored |-> stored, id |-> id, result |-> result]
    /\ ret' = DeleteAuthorization(granted, stored, id, result)
    /\ UNCHANGED <<primary, index, now, pre>>

\* The authorizations a caller asks to create, and what the wrapped service
\* returns from a mutation handed on to it.
AuthorizationInputs == [OrgID : Orgs, Permissions : PermissionLists]

WrappedResults == {Nil, "EInternal"}

NextAuth ==
    \/ \E granted \in SUBSET Orgs, allowed \in SUBSET Permissions,
          a \in AuthorizationInputs, result \in WrappedResults :
            CallCreateAuthorization(granted, allowed, a, result)
    \/ \E granted \in SUBSET Orgs, stored \in {InvalidID} \cup Orgs,
          id \in IDs, result \in WrappedResults :
            CallUpdateAuthorization(granted, stored, id, result)
    \/ \E granted \in SUBSET Orgs, stored \in {InvalidID} \cup Orgs,
          id \in IDs, result \in WrappedResults :
            CallDeleteAuthorization(granted, stored, id, result)

SpecAuth == Init /\ [][NextAuth]_vars

\* ------------------------------------------------------- shared notions
\* The buckets stored in the primary table.
StoredBuckets == {unmarshalBucket(primary[k]) : k \in DOMAIN primary}

\* The index key of a stored bucket.
IndexKeyOf(b) == bucketIndexKey(b.OrgID, b.Name).key

ReservedNames == {TasksSystemBucketName, MonitoringSystemBucketName}

\* The bucket the last call found stored under id.
Loaded(id) == unmarshalBucket(pre.primary[Enc[id]])

\* The last call found a bucket stored under id.
WasStored(id) == Valid(id) /\ Enc[id] \in DOMAIN pre.primary

\* The last call left both tables as it found them.
TablesUnchanged == primary = pre.primary /\ index = pre.index

\* ----------------------------------------------------------------- C1
\* C1: bijection I1 holds in every reachable state: every primary record has
\* exactly one index entry, the one built from its current OrgID and Name, and
\* every index entry names a primary record whose OrgID and Name are that
\* entry's key.
C1_Bijection ==
    /\ \A k \in DOMAIN primary :
         LET b == unmarshalBucket(primary[k]) IN
         /\ IndexKeyOf(b) \in DOMAIN index
         /\ \A ik \in DOMAIN index : index[ik] = k <=> ik = IndexKeyOf(b)
    /\ \A ik \in DOMAIN index :
         /\ index[ik] \in DOMAIN primary
         /\ IndexKeyOf(unmarshalBucket(primary[index[ik]])) = ik

\* ----------------------------------------------------------------- C2
\* C2: uniqueness I2 holds in every reachable state: no two records of the
\* primary table have the same (OrgID, Name) pair.
C2_Uniqueness ==
    \A k1, k2 \in DOMAIN primary :
       k1 # k2 =>
         LET b1 == unmarshalBucket(primary[k1])
             b2 == unmarshalBucket(primary[k2])
         IN <<b1.OrgID, b1.Name>> # <<b2.OrgID, b2.Name>>

\* Two buckets are stored and a create of a taken (OrgID, Name) was just refused.
C2_Witness ==
    /\ Cardinality(DOMAIN primary) = 2
    /\ call.op = "CreateBucket"
    /\ ret.err = "BucketAlreadyExistsError"

\* ----------------------------------------------------------------- C3
\* C3: in every reachable state, for every record b of the primary table,
\* GetBucketByName(b.OrgID, b.Name) succeeds and returns a record whose ID is
\* b.ID, and GetBucket(b.ID) returns that identical record; right after a
\* successful CreateBucket both lookups return the bucket that was created.
C3_Lookup ==
    /\ \A k \in DOMAIN primary :
         LET b == unmarshalBucket(primary[k])
             byName == GetBucketByName(b.OrgID, b.Name)
             byID == GetBucket(b.ID)
         IN /\ byName.err = Nil
            /\ byName.bucket.ID = b.ID
            /\ byID.err = Nil
            /\ byID.bucket = byName.bucket
            /\ byID.bucket = b
    /\ (call.op = "CreateBucket" /\ ret.err = Nil) =>
         /\ GetBucketByName(ret.bucket.OrgID, ret.bucket.Name) = [err |-> Nil, bucket |-> ret.bucket]
         /\ GetBucket(ret.bucket.ID) = [err |-> Nil, bucket |-> ret.bucket]
         /\ ret.bucket.OrgID = call.bucket.OrgID
         /\ ret.bucket.Name = call.bucket.Name

\* A create just succeeded while another bucket was already stored.
C3_Witness ==
    /\ call.op = "CreateBucket"
    /\ ret.err = Nil
    /\ Cardinality(DOMAIN primary) = 2

\* ----------------------------------------------------------------- C4
\* C4: a CreateBucket whose (OrgID, Name) is already in the index fails with
\* AlreadyExists and leaves the primary table and the index table as they were.
C4_RejectedCreate ==
    ( /\ call.op = "CreateBucket"
      /\ Valid(call.bucket.OrgID)
      /\ bucketIndexKey(call.bucket.OrgID, call.bucket.Name).key \in DOMAIN pre.index )
    => ( ret.err = "BucketAlreadyExistsError" /\ TablesUnchanged )

\* A create of an indexed (OrgID, Name) was refused while a bucket is stored.
C4_Witness ==
    /\ call.op = "CreateBucket"
    /\ ret.err = "BucketAlreadyExistsError"
    /\ bucketIndexKey(call.bucket.OrgID, call.bucket.Name).key \in DOMAIN index
    /\ primary # EmptyTable

\* ----------------------------------------------------------------- C5
\* The last call was an UpdateBucket that succeeded and changed the name.
Renamed ==
    /\ call.op = "UpdateBucket"
    /\ ret.err = Nil
    /\ WasStored(call.id)
    /\ call.upd.Name # {}
    /\ call.upd.Name # {Loaded(call.id).Name}

\* The reserved identifier a reserved name is synthesized with.
ReservedID(n) ==
    IF n = TasksSystemBucketName THEN TasksSystemBucketID ELSE MonitoringSystemBucketID

\* A lookup result that is the synthesized System bucket of (o, n).
IsSynthesized(r, o, n) ==
    /\ r.err = Nil
    /\ r.bucket.Type = BucketTypeSystem
    /\ r.bucket.ID = ReservedID(n)
    /\ r.bucket.OrgID = o
    /\ r.bucket.Name = n

\* C5 as stated: after a successful rename of a bucket of organization o from
\* n to n2, GetBucketByName(o, n) fails with NotFoundByName for every old name
\* n, GetBucketByName(o, n2) returns a record with the same ID, and the index
\* holds (o, n2) -> id and no entry for (o, n).
C5_Original ==
    Renamed =>
      LET old == Loaded(call.id)
          n2 == CHOOSE n \in call.upd.Name : TRUE
      IN /\ GetBucketByName(old.OrgID, old.Name).err = "ErrBucketNotFoundByName"
         /\ GetBucketByName(old.OrgID, n2).err = Nil
         /\ GetBucketByName(old.OrgID, n2).bucket.ID = call.id
         /\ IndexKeyOf([old EXCEPT !.Name = n2]) \in DOMAIN index
         /\ index[IndexKeyOf([old EXCEPT !.Name = n2])] = Enc[call.id]
         /\ IndexKeyOf(old) \notin DOMAIN index

\* C5 as amended: the same, except that when the old name n is one of the two
\* reserved system names GetBucketByName(o, n) does not fail: it returns the
\* synthesized System bucket of o with the reserved identifier.
C5_Rename ==
    Renamed =>
      LET old == Loaded(call.id)
          n2 == CHOOSE n \in call.upd.Name : TRUE
      IN /\ IF old.Name \in ReservedNames
            THEN IsSynthesized(GetBucketByName(old.OrgID, old.Name), old.OrgID, old.Name)
            ELSE GetBucketByName(old.OrgID, old.Name).err = "ErrBucketNotFoundByName"
         /\ old.Type = BucketTypeUser
         /\ GetBucketByName(old.OrgID, n2).err = Nil
         /\ GetBucketByName(old.OrgID, n2).bucket.ID = call.id
         /\ IndexKeyOf([old EXCEPT !.Name = n2]) \in DOMAIN index
         /\ index[IndexKeyOf([old EXCEPT !.Name = n2])] = Enc[call.id]
         /\ IndexKeyOf(old) \notin DOMAIN index

\* A bucket named by a reserved name was just renamed.
C5_Witness == Renamed /\ Loaded(call.id).Name \in ReservedNames

\* ----------------------------------------------------------------- C6
\* The last call was a DeleteBucket that succeeded.
Deleted ==
    /\ call.op = "DeleteBucket"
    /\ ret.err = Nil
    /\ WasStored(call.id)

\* C6 as stated: after a successful DeleteBucket(id) of a bucket stored with
\* (o, n), GetBucket(id) fails with NotFound, GetBucketByName(o, n) fails with
\* NotFoundByName for every name n, and the index has no entry for (o, n).
C6_Original ==
    Deleted =>
      LET old == Loaded(call.id) IN
      /\ GetBucket(call.id).err = "ErrBucketNotFound"
      /\ GetBucketByName(old.OrgID, old.Name).err = "ErrBucketNotFoundByName"
      /\ IndexKeyOf(old) \notin DOMAIN index

\* C6 as amended: the same, except that when n is one of the two reserved
\* system names GetBucketByName(o, n) does not fail: it returns the synthesized
\* System bucket of o with the reserved identifier, not the deleted record.
C6_Delete ==
    Deleted =>
      LET old == Loaded(call.id) IN
      /\ GetBucket(call.id).err = "ErrBucketNotFound"
      /\ IF old.Name \in ReservedNames
         THEN /\ IsSynthesized(GetBucketByName(old.OrgID, old.Name), old.OrgID, old.Name)
              /\ GetBucketByName(old.OrgID, old.Name).bucket # old
         ELSE GetBucketByName(old.OrgID, old.Name).err = "ErrBucketNotFoundByName"
      /\ IndexKeyOf(old) \notin DOMAIN index

\* A bucket named by a reserved name was just deleted while another is stored.
C6_Witness ==
    /\ Deleted
    /\ Loaded(call.id).Name \in ReservedNames
    /\ primary # EmptyTable

\* ----------------------------------------------------------------- C7
\* C7: identifier stability I3: a record stored under a key keeps its ID field
\* and its OrgID for as long as the key is present; no call replaces it with a
\* record of a different OrgID.
C7_Stability ==
    \A k \in (DOMAIN pre.primary) \cap (DOMAIN primary) :
       /\ unmarshalBucket(primary[k]).ID = unmarshalBucket(pre.primary[k]).ID
       /\ unmarshalBucket(primary[k]).OrgID = unmarshalBucket(pre.primary[k]).OrgID

\* ----------------------------------------------------------------- C8
\* The last call was an UpdateBucket with a name, on a stored bucket, and the
\* index already held an entry for that name in the bucket's organization.
RenameToIndexed ==
    /\ call.op = "UpdateBucket"
    /\ WasStored(call.id)
    /\ call.upd.Name # {}
    /\ IndexKeyOf([Loaded(call.id) EXCEPT !.Name = CHOOSE n \in call.upd.Name : TRUE])
         \in DOMAIN pre.index

\* C8 as stated: when UpdateBucket(id, {Name: n2}) renames a bucket and
\* (OrgID, n2) is already indexed, the call fails with NameNotUnique and both
\* tables are unchanged.
C8_Original ==
    (RenameToIndexed /\ call.upd.Name # {Loaded(call.id).Name})
    => (ret.err = "ErrBucketNameNotUnique" /\ TablesUnchanged)

\* C8 as amended: the call fails and both tables are unchanged (the old index
\* entry is still present, the stored record has its old name and old
\* UpdatedAt); the error is NameNotUnique when the loaded bucket is of type
\* User, and Forbidden when it is of type System.
C8_RejectedRename ==
    (RenameToIndexed /\ call.upd.Name # {Loaded(call.id).Name})
    => ( /\ ret.err = IF Loaded(call.id).Type = BucketTypeUser
                      THEN "ErrBucketNameNotUnique" ELSE "errRenameSystemBucket"
         /\ TablesUnchanged
         /\ IndexKeyOf(Loaded(call.id)) \in DOMAIN index
         /\ GetBucket(call.id).bucket = Loaded(call.id) )

\* A rename of a User bucket onto the name of another stored bucket was refused.
C8_Witness ==
    /\ RenameToIndexed
    /\ Loaded(call.id).Type = BucketTypeUser
    /\ call.upd.Name # {Loaded(call.id).Name}
    /\ ret.err = "ErrBucketNameNotUnique"
    /\ Cardinality(DOMAIN primary) = 2

\* ----------------------------------------------------------------- C9
\* C9: UpdateBucket(id, patch) on a loaded bucket of type System, with a
\* patch.Name that differs from its current name, fails with Forbidden and
\* changes neither table.
C9_SystemRename ==
    ( /\ call.op = "UpdateBucket"
      /\ WasStored(call.id)
      /\ Loaded(call.id).Type = BucketTypeSystem
      /\ call.upd.Name # {}
      /\ call.upd.Name # {Loaded(call.id).Name} )
    => ( ret.err = "errRenameSystemBucket" /\ TablesUnchanged )

\* A rename of a stored System bucket to a free name was refused.
C9_Witness ==
    /\ call.op = "UpdateBucket"
    /\ WasStored(call.id)
    /\ Loaded(call.id).Type = BucketTypeSystem
    /\ call.upd.Name # {}
    /\ call.upd.Name # {Loaded(call.id).Name}
    /\ IndexKeyOf([Loaded(call.id) EXCEPT !.Name = CHOOSE n \in call.upd.Name : TRUE])
         \notin DOMAIN pre.index
    /\ ret.err = "errRenameSystemBucket"

\* ---------------------------------------------------------------- C10
\* The last call was a GetBucketByName of a reserved name that a valid
\* organization has no index entry for.
ReservedMiss ==
    /\ call.op = "GetBucketByName"
    /\ Valid(call.orgID)
    /\ call.name \in ReservedNames
    /\ bucketIndexKey(call.orgID, call.name).key \notin DOMAIN pre.index

\* C10: for every organization o and each reserved system name with no index
\* entry under o, GetBucketByName succeeds and returns a System bucket with
\* the reserved identifier of that name and OrgID o, and writes nothing: both
\* tables are unchanged and the returned record is in neither.
C10_Synthesized ==
    ReservedMiss =>
      /\ IsSynthesized(ret, call.orgID, call.name)
      /\ ret.bucket.ID \in {TasksSystemBucketID, MonitoringSystemBucketID}
      /\ (ret.bucket.ID = TasksSystemBucketID) <=> (call.name = TasksSystemBucketName)
      /\ TablesUnchanged
      /\ ret.bucket \notin StoredBuckets
      /\ bucketIndexKey(call.orgID, call.name).key \notin DOMAIN index

\* The monitoring bucket was synthesized for an organization that owns no
\* bucket, while another organization owns one.
C10_Witness ==
    /\ ReservedMiss
    /\ call.name = MonitoringSystemBucketName
    /\ ret.bucket.ID = MonitoringSystemBucketID
    /\ primary # EmptyTable
    /\ \A b \in StoredBuckets : b.OrgID # call.orgID

\* ------------------------------------------------------ listing notions
\* The last call was ListBuckets.
Listing == call.op = "ListBuckets"

\* The last call listed one organization: OrganizationID set and valid, no Name.
ListingOrg ==
    /\ Listing
    /\ call.filter.Name = {}
    /\ \E o \in Orgs : call.filter.OrganizationID = {o}

ListedOrg == CHOOSE o \in call.filter.OrganizationID : TRUE

\* The options the caller passed, with the spec's defaults for absent options.
PassedLimit == IF call.opt = << >> THEN DefaultPageSize ELSE call.opt[1].Limit
PassedOffset == IF call.opt = << >> THEN 0 ELSE call.opt[1].Offset
PassedDescending == IF call.opt = << >> THEN FALSE ELSE call.opt[1].Descending

\* The largest number of results the spec allows the last listing.
PageBound ==
    IF call.opt = << >> THEN DefaultPageSize
    ELSE IF call.opt[1].Limit = 0 \/ call.opt[1].Limit > MaxPageSize THEN MaxPageSize
    ELSE call.opt[1].Limit

\* The stored buckets of organization o.
BucketsOf(o) == {b \in StoredBuckets : b.OrgID = o}

RECURSIVE AscendingByName(_)
\* The buckets of S in ascending order of their names.
AscendingByName(S) ==
    IF S = {} THEN << >>
    ELSE LET m == CHOOSE b \in S : \A x \in S \ {b} : ~bytesLess(x.Name, b.Name)
         IN <<m>> \o AscendingByName(S \ {m})

\* The page of s that skips off elements and takes at most lim.
Page(s, off, lim) ==
    LET remaining == IF Len(s) > off THEN Len(s) - off ELSE 0
        n == IF lim < remaining THEN lim ELSE remaining
    IN SubSeq(s, off + 1, off + n)

\* ---------------------------------------------------------------- C11
\* C11: ListBuckets with filter.OrganizationID = o (ascending, the default
\* direction) succeeds and returns the buckets of o in ascending name order,
\* without the first Offset of them and at most Limit of the rest.
C11_OrgListing ==
    (ListingOrg /\ ~PassedDescending) =>
        /\ ret.err = Nil
        /\ ret.buckets = Page(AscendingByName(BucketsOf(ListedOrg)),
                              PassedOffset, PageBound)

\* ---------------------------------------------------------------- C12
\* What the ascending listing of organization o returns when nothing is
\* skipped and nothing cut off.
FullAscending(o) ==
    orgLoop(ForwardCursor(index, Enc[o], FALSE),
            [Limit |-> Cardinality(DOMAIN index) + 1, Offset |-> 0,
             Descending |-> FALSE],
            0, << >>, {bucketIndex})

\* C12: ListBuckets with filter.OrganizationID = o and Descending = true
\* returns the first Limit elements, after Offset, of the reverse of the
\* ascending listing of o.
C12_Descending ==
    (ListingOrg /\ PassedDescending /\ FullAscending(ListedOrg).err = Nil) =>
        /\ ret.err = Nil
        /\ ret.buckets = Page(Reverse(FullAscending(ListedOrg).buckets),
                              PassedOffset, PageBound)

\* ---------------------------------------------------------------- C13
\* C13: an accepted ListBuckets returns at most the maximum page size of
\* results for Limit = 0 or Limit above the maximum, at most Limit results for
\* 0 < Limit <= maximum, and at most the default page size without options.
C13_PageSize == Listing => Len(ret.buckets) <= PageBound

\* A listing of the whole store with Limit = 0 that returned a full page of
\* the maximum size although more records are stored.
C13_Witness ==
    /\ Listing
    /\ call.filter = [Name |-> {}, OrganizationID |-> {}]
    /\ call.opt # << >>
    /\ call.opt[1].Limit = 0
    /\ Len(ret.buckets) = MaxPageSize
    /\ Cardinality(DOMAIN primary) > MaxPageSize

\* ---------------------------------------------------------------- C14
\* Both transactions have returned.
BothDone == call.op = "CreateBucket x 2" /\ \A i \in 1..2 : ret.tx[i].pc = "done"

\* No two stored buckets share OrgID and Name (I2).
NameUniquePerOrg ==
    \A b1, b2 \in StoredBuckets :
        (b1.OrgID = b2.OrgID /\ b1.Name = b2.Name) => b1 = b2

\* C14: when the engine serializes two transactions that each create the same
\* (OrgID, Name) under different IDs, exactly one create succeeds, the other
\* fails with AlreadyExists, and no two stored buckets share OrgID and Name.
C14_Serialized ==
    (BothDone /\ call.engine = "serialized") =>
        /\ \E i \in 1..2 :
              /\ ret.tx[i].err = Nil
              /\ ret.tx[3 - i].err = "BucketAlreadyExistsError"
        /\ NameUniquePerOrg
        /\ Cardinality(DOMAIN primary) = 1

\* The serialized run in which the second transaction went first and won.
C14_Witness ==
    /\ BothDone /\ call.engine = "serialized"
    /\ ret.tx[2].err = Nil
    /\ ret.tx[1].err = "BucketAlreadyExistsError"

\* Without serialization both creates pass the probe and both write: two
\* stored buckets share OrgID and Name.
C14_Unserialized ==
    /\ BothDone /\ call.engine = "none"
    /\ \A i \in 1..2 : ret.tx[i].err = Nil
    /\ ~NameUniquePerOrg

ListingBoth ==
    Listing /\ call.filter.Name # {} /\ call.filter.OrganizationID # {}

\* C16 as stated: with both filter fields set ListBuckets fails with the
\* invalid-request error whatever the two values are, returns no results and
\* reads neither table.
C16_Original ==
    ListingBoth =>
        /\ ret.err = "invalidBucketListRequest"
        /\ ret.buckets = << >>
        /\ ret.tables = {} /\ ret.opened = 0

\* C16: with both filter fields set ListBuckets fails, returns no results and
\* reads neither table; the error is the invalid-request error when the
\* OrganizationID is valid, and the invalid-identifier error of the index key
\* (code EInvalid) when it is not.
C16_BothSet ==
    ListingBoth =>
        /\ ret.err = (IF call.filter.OrganizationID = {InvalidID}
                      THEN "EInvalid" ELSE "invalidBucketListRequest")
        /\ ret.buckets = << >>
        /\ ret.tables = {} /\ ret.opened = 0
        /\ TablesUnchanged

\* A listing with a name and an OrganizationID that is not valid, on a store
\* that holds buckets.
C16_Witness ==
    /\ ListingBoth
    /\ call.filter.OrganizationID = {InvalidID}
    /\ primary # EmptyTable

\* ---------------------------------------------------------------- C17
\* The last call was an UpdateBucket that succeeded.
Updated == call.op = "UpdateBucket" /\ ret.err = Nil

\* C17: a successful UpdateBucket(id, patch) changes only the record under id:
\* no record is added or removed, every other record is as it was, the record's
\* ID, OrgID and Type are as they were, so is each of Name, Description and
\* RetentionPeriod whose patch field is absent, and the index is as it was
\* when patch.Name is absent or the current name.
C17_Frame ==
    Updated =>
        LET old == Loaded(call.id)
            new == unmarshalBucket(primary[Enc[call.id]])
        IN /\ DOMAIN primary = DOMAIN pre.primary
           /\ \A k \in DOMAIN primary \ {Enc[call.id]} : primary[k] = pre.primary[k]
           /\ new.ID = old.ID /\ new.OrgID = old.OrgID /\ new.Type = old.Type
           /\ (call.upd.Name = {} => new.Name = old.Name)
           /\ (call.upd.Description = {} => new.Description = old.Description)
           /\ (call.upd.RetentionPeriod = {} =>
                   new.RetentionPeriod = old.RetentionPeriod)
           /\ ((call.upd.Name = {} \/ call.upd.Name = {old.Name}) =>
                   index = pre.index)

\* A successful update that set the retention period only, on a store that
\* holds other records.
C17_Witness ==
    /\ Updated
    /\ call.upd.Name = {} /\ call.upd.Description = {}
    /\ call.upd.RetentionPeriod # {}
    /\ Cardinality(DOMAIN primary) > 1
    /\ unmarshalBucket(primary[Enc[call.id]]).RetentionPeriod
           # Loaded(call.id).RetentionPeriod

\* ---------------------------------------------------------------- C18
\* C18: a CreateBucket with the empty name fails with the empty-name error and
\* an UpdateBucket that renames a stored bucket to the empty name fails; both
\* leave the two tables as they were.
C18_EmptyName ==
    /\ (/\ call.op = "CreateBucket"
        /\ call.bucket.Name = << >>
        /\ Valid(call.bucket.OrgID)) =>
            (ret.err = "ErrNameisEmpty" /\ TablesUnchanged)
    /\ (/\ call.op = "UpdateBucket"
        /\ call.upd.Name = {<< >>}
        /\ WasStored(call.id)
        /\ Loaded(call.id).Name # << >>) =>
            (ret.err # Nil /\ TablesUnchanged)

\* ---------------------------------------------------------------- C19
\* C19: ListBuckets with filter.OrganizationID = o, Offset 0 and a limit not
\* below the number of stored buckets succeeds and returns exactly the primary
\* records whose OrgID is o, each once.
C19_ExactlyTheOrg ==
    (ListingOrg /\ PassedOffset = 0 /\ Cardinality(DOMAIN primary) <= PageBound) =>
        /\ ret.err = Nil
        /\ {ret.buckets[i] : i \in 1..Len(ret.buckets)} = BucketsOf(ListedOrg)
        /\ Len(ret.buckets) = Cardinality(BucketsOf(ListedOrg))

\* ---------------------------------------------------------------- C20
\* The calls that change the wrapped service.
Mutations == {"CreateAuthorization", "UpdateAuthorization", "DeleteAuthorization"}

\* The last call on the decorator handed a mutation on to the wrapped service.
Forwarded == \E i \in 1..Len(ret.forwarded) : ret.forwarded[i] \in Mutations

\* Every check the decorator makes before the mutation of the last call passes.
ChecksPass ==
    IF call.op = "CreateAuthorization"
    THEN /\ call.a.OrgID \in call.granted
         /\ \A i \in 1..Len(call.a.Permissions) :
               call.a.Permissions[i] \in call.allowed
    ELSE /\ call.stored # InvalidID
         /\ call.stored \in call.granted

\* C20: the decorator hands a mutation on to the wrapped service only when the
\* create check and the check of every asked permission passed (create), or
\* the target was found and the write check on it passed (update, delete);
\* when a lookup or check fails it returns that error and hands on no mutation.
C20_NeverForwards ==
    call.op \in Mutations =>
        /\ Forwarded => ChecksPass
        /\ ~ChecksPass => (ret.err \notin {Nil, call.result} /\ ~Forwarded)
        /\ Forwarded => ret.forwarded[Len(ret.forwarded)] = call.op

\* A create that passed the create check and the check of its first permission
\* and failed the check of its second: nothing was handed on.
C20_Witness ==
    /\ call.op = "CreateAuthorization"
    /\ call.a.OrgID \in call.granted
    /\ Len(call.a.Permissions) = 2
    /\ call.a.Permissions[1] \in call.allowed
    /\ call.a.Permissions[2] \notin call.allowed
    /\ ret.err = "EForbidden"
    /\ ~Forwarded

====
